---- MODULE Spec2Model ----
(***************************************************************************)
(* State-machine model of the Node Details Parser (Normalize_Excel):       *)
(* the worksheet grid, the issue ledger, the row classifier of             *)
(* lib/excel_parser.py and the hierarchical extractor of                   *)
(* lib/post_process.py.                                                    *)
(*                                                                         *)
(* A Python str is a sequence of one-character strings, so that strip()    *)
(* and str() are computed and not assumed.  A Python dict is a sequence of *)
(* [k, v] entries in first-insertion order.                                *)
(***************************************************************************)
EXTENDS Integers, Sequences, FiniteSets, TLC

\* ------------------------------------------------------------------ bounds
\* Rows of the worksheet (ws.max_row): rows 1-2 are headers, 3..MaxRow data.
MaxRow == 5
\* Columns of the worksheet (ws.max_column): 1-3 keys, then versions, then comment.
MaxCol == 7

\* ------------------------------------------------------- program constants
\* First data row: range(3, last_row + 1).
FirstDataRow == 3
\* The version-label row: min_row=2, max_row=2.
VersionRowIdx == 2
\* First version column: min_col=4, start_col = 4, index(...) + 4.
FirstVersionCol == 4

\* ------------------------------------------------------------ cell values
\* A cell value is None, a str or an int (openpyxl's literal scalars).
None == [t |-> "none", s |-> <<>>, n |-> 0]
Str(s) == [t |-> "str", s |-> s, n |-> 0]
Num(n) == [t |-> "int", s |-> <<>>, n |-> n]
EmptyStr == Str(<<>>)

isinstance_str(v) == v.t = "str"

\* Characters str.strip() removes.
Whitespace == {" ", "\t"}

RECURSIVE lstrip(_)
lstrip(s) ==
    IF s = <<>> THEN <<>>
    ELSE IF Head(s) \in Whitespace THEN lstrip(Tail(s)) ELSE s

RECURSIVE rstrip(_)
rstrip(s) ==
    IF s = <<>> THEN <<>>
    ELSE IF s[Len(s)] \in Whitespace THEN rstrip(SubSeq(s, 1, Len(s) - 1)) ELSE s

\* str.strip(): a character sequence without leading and trailing whitespace.
strip(s) == rstrip(lstrip(s))

Digits == <<"0", "1", "2", "3", "4", "5", "6", "7", "8", "9">>

RECURSIVE IntStr(_)
IntStr(n) ==
    IF n < 10 THEN <<Digits[n + 1]>>
    ELSE IntStr(n \div 10) \o <<Digits[(n % 10) + 1]>>

\* str(v), as a character sequence.
str(v) ==
    CASE v.t = "none" -> <<"N", "o", "n", "e">>
      [] v.t = "str" -> v.s
      [] v.t = "int" -> IntStr(v.n)

\* `v in (None, "")` on a cell value.
InNoneOrEmpty(v) == v = None \/ v = EmptyStr

\* CleanStr without the trimming.
CleanStrUntrimmed(v) == IF v # None THEN str(v) ELSE <<>>

\* `str(v).strip() if v is not None else ""`, as a character sequence.
CleanStr(v) == IF v # None THEN strip(str(v)) ELSE <<>>

\* ------------------------------------------------------------------ dicts
EmptyDict == <<>>
DictKeys(d) == {d[i].k : i \in DOMAIN d}
DictHas(d, k) == \E i \in DOMAIN d : d[i].k = k
DictIdx(d, k) == CHOOSE i \in DOMAIN d : d[i].k = k
DictGet(d, k) == d[DictIdx(d, k)].v
\* d[k] = v: replaces the value in place, or appends a new entry.
DictSet(d, k, v) ==
    IF DictHas(d, k) THEN [d EXCEPT ![DictIdx(d, k)].v = v]
    ELSE Append(d, [k |-> k, v |-> v])
\* d.setdefault(k, {}).
DictGetOrEmpty(d, k) == IF DictHas(d, k) THEN DictGet(d, k) ELSE EmptyDict

\* --------------------------------------------------------------- the grid
Rows == 1..MaxRow
Cols == 1..MaxCol
max_row == MaxRow
max_column == MaxCol

\* ws.cell(row=r, column=c).value
Value(g, r, c) == g[<<r, c>>]

\* LastRowFrom counting every cell that is not None, the empty string included.
RECURSIVE LastRowFromNotNone(_, _)
LastRowFromNotNone(g, r) ==
    IF r = 0 THEN 0
    ELSE IF \E c \in 1..max_column : Value(g, r, c) # None THEN r
    ELSE LastRowFromNotNone(g, r - 1)

RECURSIVE LastRowFrom(_, _)
LastRowFrom(g, r) ==
    IF r = 0 THEN 0
    ELSE IF \E c \in 1..max_column : ~InNoneOrEmpty(Value(g, r, c)) THEN r
    ELSE LastRowFrom(g, r - 1)

get_last_row_with_value(g) == LastRowFrom(g, max_row)

RECURSIVE LastColFrom(_, _)
LastColFrom(g, c) ==
    IF c = 0 THEN 0
    ELSE IF \E r \in 1..max_row : ~InNoneOrEmpty(Value(g, r, c)) THEN c
    ELSE LastColFrom(g, c - 1)

get_last_col_with_value(g) == LastColFrom(g, max_column)

\* ------------------------------------------------------------------ state
VARIABLES
    ws,                     \* the worksheet: cell values by <<row, column>>
    fill,                   \* the worksheet: cell fill styles by <<row, column>>
    issues,                 \* the caller's issue ledger
    start_version,          \* create_hierarchical_json argument
    end_version,            \* create_hierarchical_json argument
    skipped_rows_for_json,  \* the caller's skipped-row list
    pc,                     \* position in the running operation
    last_row, last_col,     \* locals of create_hierarchical_json
    version_row, start_col, end_col,
    row, supported_nodes, data,
    result,                 \* return value "True" / "False": "none" before the return
    err,                    \* the failure reported by the failing return
    json_file,              \* the JSON document written, <<>> when none
    first,                  \* outcome of an earlier completed call, <<>> when none
    merged,                 \* the worksheet: ws.merged_cells.ranges, in list order
    align,                  \* the worksheet: cell alignment by <<row, column>>
    saved,                  \* the workbook written by wb.save, <<>> when none
    before                  \* the sheet and ledger the running operation was given

vars == <<ws, fill, issues, start_version, end_version, skipped_rows_for_json,
          pc, last_row, last_col, version_row, start_col, end_col, row,
          supported_nodes, data, result, err, json_file, first,
          merged, align, saved, before>>

gridVars == <<ws, fill, issues>>
bookVars == <<merged, align, saved, before>>
\* The locals and outputs of create_hierarchical_json.
callVars == <<skipped_rows_for_json, last_row, last_col, version_row, start_col,
              end_col, row, supported_nodes, data, err, json_file, first>>
argVars == <<start_version, end_version>>

\* The sheet and the ledger an operation works on.
Sheet ==
    [ws |-> ws, fill |-> fill, align |-> align, merged |-> merged, issues |-> issues]

\* -------------------------------------------- create_hierarchical_json
\* Row 2, columns 4..last_col - 1, each label cleaned.
VersionRow(g, lc) ==
    [i \in 1..(IF lc - 1 >= FirstVersionCol THEN lc - FirstVersionCol ELSE 0) |->
        CleanStr(Value(g, VersionRowIdx, i + FirstVersionCol - 1))]

\* HeaderIncomplete looking at the first label only.
HeaderIncompleteFirst(vr) == vr # <<>> /\ vr[1] = <<>>

\* `"" in version_row` (a cleaned label is never None).
HeaderIncomplete(vr) == \E i \in DOMAIN vr : vr[i] = <<>>

\* `x in version_row`
InVersionRow(vr, x) == \E i \in DOMAIN vr : vr[i] = x

\* IndexPlus4 taking the last match.
IndexPlus4Last(vr, x) ==
    (CHOOSE i \in DOMAIN vr : vr[i] = x /\ \A j \in (i + 1)..Len(vr) : vr[j] # x)
        - 1 + FirstVersionCol

\* version_row.index(x) + 4, for x in version_row.
IndexPlus4(vr, x) ==
    (CHOOSE i \in DOMAIN vr : vr[i] = x /\ \A j \in 1..(i - 1) : vr[j] # x)
        - 1 + FirstVersionCol

\* SkipRow without the equal-keys test.
SkipRowOnlyMissing(tech, node_type, node_version) ==
    \/ tech = <<>>
    \/ node_type = <<>>
    \/ node_version = <<>>

\* Lines 92-117: the row is skipped.
SkipRow(tech, node_type, node_version) ==
    \/ tech = <<>>
    \/ node_type = <<>>
    \/ node_version = <<>>
    \/ (tech = node_type /\ node_type = node_version)

\* SupportedNodes with the end column excluded: range(start_col, end_col).
RECURSIVE SupportedNodesExclusive(_, _, _, _)
SupportedNodesExclusive(g, r, sc, ec) ==
    IF sc >= ec THEN EmptyDict
    ELSE LET rest == SupportedNodesExclusive(g, r, sc, ec - 1)
             val == Value(g, r, ec - 1)
         IN IF ~InNoneOrEmpty(val)
            THEN DictSet(rest, str(Value(g, VersionRowIdx, ec - 1)), val)
            ELSE rest

\* Lines 120-124: the entries of columns sc..ec of row r, in column order.
RECURSIVE SupportedNodes(_, _, _, _)
SupportedNodes(g, r, sc, ec) ==
    IF sc > ec THEN EmptyDict
    ELSE LET rest == SupportedNodes(g, r, sc, ec - 1)
             val == Value(g, r, ec)
         IN IF ~InNoneOrEmpty(val)
            THEN DictSet(rest, str(Value(g, VersionRowIdx, ec)), val)
            ELSE rest

\* WithComment adding the comment to an empty mapping too.
WithCommentEager(g, sn, comments, lc) ==
    IF comments # <<>>
    THEN DictSet(sn, str(Value(g, VersionRowIdx, lc)), Str(comments))
    ELSE sn

\* Lines 131-133: the comment entry joins a non-empty mapping.
WithComment(g, sn, comments, lc) ==
    IF Len(sn) > 0 /\ comments # <<>>
    THEN DictSet(sn, str(Value(g, VersionRowIdx, lc)), Str(comments))
    ELSE sn

\* Insert keeping the mapping a key triple already has.
InsertKeepFirst(d, tech, node_type, node_version, sn) ==
    LET d1 == DictGetOrEmpty(d, tech)
        d2 == DictGetOrEmpty(d1, node_type)
    IN IF DictHas(d2, node_version) THEN d
       ELSE DictSet(d, tech, DictSet(d1, node_type, DictSet(d2, node_version, sn)))

\* Line 134: data.setdefault(tech, {}).setdefault(node_type, {})[node_version] = sn
Insert(d, tech, node_type, node_version, sn) ==
    LET d1 == DictGetOrEmpty(d, tech)
        d2 == DictGetOrEmpty(d1, node_type)
    IN DictSet(d, tech, DictSet(d1, node_type, DictSet(d2, node_version, sn)))

\* RowData inserting the mapping of every row, empty or not.
RowDataAlways(d, tech, node_type, node_version, sn) ==
    Insert(d, tech, node_type, node_version, sn)

\* Lines 130-134: only a non-empty mapping is inserted.
RowData(d, tech, node_type, node_version, sn) ==
    IF Len(sn) > 0 THEN Insert(d, tech, node_type, node_version, sn) ELSE d

\* InvalidRange accepting a one-column window.
InvalidRangeStrict(sc, ec) == sc > ec

\* Line 84: `start_col >= end_col`.
InvalidRange(sc, ec) == sc >= ec

Fail(reason) ==
    /\ result' = "False"
    /\ err' = reason
    /\ pc' = "done"

\* ReadHeader storing the cleaned labels back into row 2 of the sheet.
ReadHeaderCleansSheet ==
    /\ pc = "start"
    /\ last_row' = get_last_row_with_value(ws)
    /\ last_col' = get_last_col_with_value(ws)
    /\ data' = EmptyDict
    /\ version_row' = VersionRow(ws, last_col')
    /\ ws' = [p \in DOMAIN ws |->
                IF p[1] = VersionRowIdx /\ p[2] >= FirstVersionCol /\ p[2] < last_col'
                THEN Str(CleanStr(ws[p]))
                ELSE ws[p]]
    /\ IF HeaderIncomplete(version_row')
       THEN Fail("HeaderIncomplete")
       ELSE pc' = "start_col" /\ UNCHANGED <<result, err>>
    /\ UNCHANGED <<fill, issues, argVars, bookVars, skipped_rows_for_json, start_col, end_col,
                   row, supported_nodes, json_file, first>>

\* Lines 32-55: bounds, the version row and the header check.
ReadHeader ==
    /\ pc = "start"
    /\ last_row' = get_last_row_with_value(ws)
    /\ last_col' = get_last_col_with_value(ws)
    /\ data' = EmptyDict
    /\ version_row' = VersionRow(ws, last_col')
    /\ IF HeaderIncomplete(version_row')
       THEN Fail("HeaderIncomplete")
       ELSE pc' = "start_col" /\ UNCHANGED <<result, err>>
    /\ UNCHANGED <<gridVars, argVars, bookVars, skipped_rows_for_json, start_col, end_col,
                   row, supported_nodes, json_file, first>>

\* Lines 57-68.
ResolveStart ==
    /\ pc = "start_col"
    /\ IF start_version = <<>>
       THEN start_col' = FirstVersionCol /\ pc' = "end_col" /\ UNCHANGED <<result, err>>
       ELSE IF InVersionRow(version_row, start_version)
            THEN /\ start_col' = IndexPlus4(version_row, start_version)
                 /\ pc' = "end_col"
                 /\ UNCHANGED <<result, err>>
            ELSE Fail("VersionNotFound") /\ UNCHANGED start_col
    /\ UNCHANGED <<gridVars, argVars, bookVars, skipped_rows_for_json, last_row, last_col,
                   version_row, end_col, row, supported_nodes, data, json_file, first>>

\* ResolveEnd with a default window that runs through the last column.
ResolveEndThroughLast ==
    /\ pc = "end_col"
    /\ IF end_version = <<>>
       THEN end_col' = last_col /\ pc' = "range" /\ UNCHANGED <<result, err>>
       ELSE IF InVersionRow(version_row, end_version)
            THEN /\ end_col' = IndexPlus4(version_row, end_version)
                 /\ pc' = "range"
                 /\ UNCHANGED <<result, err>>
            ELSE Fail("VersionNotFound") /\ UNCHANGED end_col
    /\ UNCHANGED <<gridVars, argVars, bookVars, skipped_rows_for_json, last_row, last_col,
                   version_row, start_col, row, supported_nodes, data, json_file, first>>

\* Lines 70-81.
ResolveEnd ==
    /\ pc = "end_col"
    /\ IF end_version = <<>>
       THEN end_col' = last_col - 1 /\ pc' = "range" /\ UNCHANGED <<result, err>>
       ELSE IF InVersionRow(version_row, end_version)
            THEN /\ end_col' = IndexPlus4(version_row, end_version)
                 /\ pc' = "range"
                 /\ UNCHANGED <<result, err>>
            ELSE Fail("VersionNotFound") /\ UNCHANGED end_col
    /\ UNCHANGED <<gridVars, argVars, bookVars, skipped_rows_for_json, last_row, last_col,
                   version_row, start_col, row, supported_nodes, data, json_file, first>>

\* Lines 83-92: the range check; a valid range enters the row loop.
ValidateRange ==
    /\ pc = "range"
    /\ IF InvalidRange(start_col, end_col)
       THEN Fail("InvalidRange") /\ UNCHANGED row
       ELSE pc' = "rows" /\ row' = FirstDataRow - 1 /\ UNCHANGED <<result, err>>
    /\ UNCHANGED <<gridVars, argVars, bookVars, skipped_rows_for_json, last_row, last_col,
                   version_row, start_col, end_col, supported_nodes, data,
                   json_file, first>>

\* Lines 92-134: one iteration of the row loop.
ProcessRow ==
    /\ pc = "rows"
    /\ row + 1 <= last_row
    /\ row' = row + 1
    /\ LET tech == CleanStr(Value(ws, row', 1))
           node_type == CleanStr(Value(ws, row', 2))
           node_version == CleanStr(Value(ws, row', 3))
           comments == CleanStr(Value(ws, row', last_col))
           sn == WithComment(ws, SupportedNodes(ws, row', start_col, end_col),
                             comments, last_col)
       IN IF SkipRow(tech, node_type, node_version)
          THEN /\ skipped_rows_for_json' = Append(skipped_rows_for_json, row')
               /\ UNCHANGED <<supported_nodes, data>>
          ELSE /\ supported_nodes' = sn
               /\ data' = RowData(data, tech, node_type, node_version, sn)
               /\ UNCHANGED skipped_rows_for_json
    /\ UNCHANGED <<gridVars, argVars, bookVars, pc, last_row, last_col, version_row,
                   start_col, end_col, result, err, json_file, first>>

\* Lines 136-141: the document is written and the call returns True.
WriteJson ==
    /\ pc = "rows"
    /\ row + 1 > last_row
    /\ json_file' = <<data>>
    /\ result' = "True"
    /\ pc' = "done"
    /\ UNCHANGED <<gridVars, argVars, bookVars, skipped_rows_for_json, last_row, last_col,
                   version_row, start_col, end_col, row, supported_nodes, data,
                   err, first>>

Extract ==
    \/ ReadHeader
    \/ ResolveStart
    \/ ResolveEnd
    \/ ValidateRange
    \/ ProcessRow
    \/ WriteJson

\* A second call by the same caller on the same sheet with the same arguments
\* and a fresh skipped-row list (post_process.main builds the list per call).
CallAgain ==
    /\ pc = "done"
    /\ first = <<>>
    /\ first' = << [result |-> result, err |-> err, json_file |-> json_file,
                    skipped |-> skipped_rows_for_json] >>
    /\ skipped_rows_for_json' = <<>>
    /\ pc' = "start"
    /\ last_row' = 0
    /\ last_col' = 0
    /\ version_row' = <<>>
    /\ start_col' = 0
    /\ end_col' = 0
    /\ row' = FirstDataRow - 1
    /\ supported_nodes' = EmptyDict
    /\ data' = EmptyDict
    /\ result' = "none"
    /\ err' = ""
    /\ UNCHANGED <<gridVars, argVars, bookVars, json_file>>

\* --------------------------------------------- highlight_unusable_rows
\* Line 105: `str(v).strip() if isinstance(v, str) else v`.
Normalize(v) == IF isinstance_str(v) THEN Str(strip(str(v))) ELSE v

\* Lines 100-105: the normalised values of columns 1-3 of row r.
KeyValues(g, r) == [i \in 1..3 |-> Normalize(Value(g, r, i))]

\* RowClass testing for some empty key before testing for all keys empty.
RowClassPartialFirst(g, r) ==
    LET values == KeyValues(g, r)
    IN IF \E i \in 1..3 : InNoneOrEmpty(values[i]) THEN "incomplete"
       ELSE IF \A i \in 1..3 : InNoneOrEmpty(values[i]) THEN "unusable"
       ELSE IF /\ ~InNoneOrEmpty(values[1])
               /\ values[1] = values[2]
               /\ values[2] = values[3] THEN "node_header"
       ELSE "valid"

\* Lines 107-133: the branch taken for row r.
RowClass(g, r) ==
    LET values == KeyValues(g, r)
    IN IF \A i \in 1..3 : InNoneOrEmpty(values[i]) THEN "unusable"
       ELSE IF /\ ~InNoneOrEmpty(values[1])
               /\ values[1] = values[2]
               /\ values[2] = values[3] THEN "node_header"
       ELSE IF \E i \in 1..3 : InNoneOrEmpty(values[i]) THEN "incomplete"
       ELSE "valid"

\* Rows 3..lr, ascending, that take branch cls.
RowsOfClass(g, lr, cls) ==
    SelectSeq([i \in 1..(IF lr >= FirstDataRow THEN lr - FirstDataRow + 1 ELSE 0)
                  |-> i + FirstDataRow - 1],
              LAMBDA r : RowClass(g, r) = cls)

\* HighlightFill without the stronger fill on the missing keys.
HighlightFillRowOnly(g, f, lr, lc) ==
    [p \in DOMAIN f |->
        IF /\ p[1] >= FirstDataRow
           /\ p[1] <= lr
           /\ p[2] <= lc
           /\ RowClass(g, p[1]) # "valid"
        THEN "light_red_fill"
        ELSE f[p]]

\* Lines 110-111, 117-118, 124-128: the fills after the pass.
HighlightFill(g, f, lr, lc) ==
    [p \in DOMAIN f |->
        IF /\ p[1] >= FirstDataRow
           /\ p[1] <= lr
           /\ p[2] <= lc
           /\ RowClass(g, p[1]) # "valid"
        THEN IF /\ RowClass(g, p[1]) = "incomplete"
                /\ p[2] <= 3
                /\ InNoneOrEmpty(KeyValues(g, p[1])[p[2]])
             THEN "red_fill"
             ELSE "light_red_fill"
        ELSE f[p]]

\* Lines 89-143: the whole pass, run at position from; the three lists
\* replace the ledger's.
HighlightUnusableRows(from, to) ==
    /\ pc = from
    /\ LET lc == get_last_col_with_value(ws)
           lr == get_last_row_with_value(ws)
       IN /\ fill' = HighlightFill(ws, fill, lr, lc)
          /\ issues' = [issues EXCEPT
                          !.unusable_rows = RowsOfClass(ws, lr, "unusable"),
                          !.incomplete_rows = RowsOfClass(ws, lr, "incomplete"),
                          !.node_header_rows = RowsOfClass(ws, lr, "node_header")]
    /\ before' = Sheet
    /\ result' = "True"
    /\ pc' = to
    /\ UNCHANGED <<ws, argVars, merged, align, saved, skipped_rows_for_json,
                   last_row, last_col, version_row, start_col, end_col, row,
                   supported_nodes, data, err, json_file, first>>

highlight_unusable_rows == HighlightUnusableRows("classify", "classified")

\* ------------------------------------------------------ unmerge_and_fill
\* A merged range (openpyxl CellRange): its boundaries.
Range(r1, c1, r2, c2) ==
    [min_row |-> r1, min_col |-> c1, max_row |-> r2, max_col |-> c2]
RangeCells(m) == (m.min_row..m.max_row) \X (m.min_col..m.max_col)
\* merge_range.coord.split(":")[0]: the top-left cell.
Anchor(m) == <<m.min_row, m.min_col>>

\* UnmergeOne recording every range in the ledger, whatever its anchor holds.
UnmergeOneRecordsAll(b, m) ==
    LET cell_value == b.ws[Anchor(m)]
        others == RangeCells(m) \ {Anchor(m)}
    IN [ws |-> [p \in DOMAIN b.ws |->
                  IF p \in RangeCells(m) /\ cell_value # None THEN cell_value
                  ELSE IF p \in others THEN None ELSE b.ws[p]],
        fill |-> [p \in DOMAIN b.fill |->
                  IF p \in RangeCells(m) /\ cell_value = None THEN "red_fill"
                  ELSE IF p \in others THEN "none" ELSE b.fill[p]],
        align |-> [p \in DOMAIN b.align |->
                  IF p \in others THEN "none" ELSE b.align[p]],
        merged |-> SelectSeq(b.merged, LAMBDA x : x # m),
        issues |-> [b.issues EXCEPT !.merged_empty_cells = Append(@, m)]]

\* UnmergeOne without the call of ws.unmerge_cells.
UnmergeOneKeepsRange(b, m) ==
    LET cell_value == b.ws[Anchor(m)]
    IN [ws |-> [p \in DOMAIN b.ws |->
                  IF p \in RangeCells(m) /\ cell_value # None THEN cell_value
                  ELSE b.ws[p]],
        fill |-> [p \in DOMAIN b.fill |->
                  IF p \in RangeCells(m) /\ cell_value = None THEN "red_fill"
                  ELSE b.fill[p]],
        align |-> b.align,
        merged |-> b.merged,
        issues |-> IF cell_value = None
                   THEN [b.issues EXCEPT !.merged_empty_cells = Append(@, m)]
                   ELSE b.issues]

\* Lines 198-214: the loop body for range m.  ws.unmerge_cells removes the
\* range and drops its cells other than the anchor from the sheet; the cells
\* the fill loop then visits are fresh ones.
UnmergeOne(b, m) ==
    LET cell_value == b.ws[Anchor(m)]
        others == RangeCells(m) \ {Anchor(m)}
    IN [ws |-> [p \in DOMAIN b.ws |->
                  IF p \in RangeCells(m) /\ cell_value # None THEN cell_value
                  ELSE IF p \in others THEN None ELSE b.ws[p]],
        fill |-> [p \in DOMAIN b.fill |->
                  IF p \in RangeCells(m) /\ cell_value = None THEN "red_fill"
                  ELSE IF p \in others THEN "none" ELSE b.fill[p]],
        align |-> [p \in DOMAIN b.align |->
                  IF p \in others THEN "none" ELSE b.align[p]],
        merged |-> SelectSeq(b.merged, LAMBDA x : x # m),
        issues |-> IF cell_value = None
                   THEN [b.issues EXCEPT !.merged_empty_cells = Append(@, m)]
                   ELSE b.issues]

\* Line 197: the loop over list(ws.merged_cells.ranges).
RECURSIVE UnmergeAll(_, _)
UnmergeAll(b, ranges) ==
    IF ranges = <<>> THEN b
    ELSE UnmergeAll(UnmergeOne(b, Head(ranges)), Tail(ranges))

\* Lines 188-217: the whole operation, run at position from.
UnmergeAndFill(from, to) ==
    /\ pc = from
    /\ before' = Sheet
    /\ LET b == UnmergeAll(Sheet, merged)
       IN /\ ws' = b.ws
          /\ fill' = b.fill
          /\ align' = b.align
          /\ merged' = b.merged
          /\ issues' = b.issues
    /\ result' = "True"
    /\ pc' = to
    /\ UNCHANGED <<argVars, callVars, saved>>

unmerge_and_fill == UnmergeAndFill("unmerge", "unmerged")

\* A second call right after the first.
unmerge_and_fill_again == UnmergeAndFill("unmerged", "unmerged_twice")

\* ------------------------------------------------- validate_header_count
\* 3 fixed columns + 1 supported node + 1 comment.
min_required_columns == 5
\* Header rows + at least 1 data row.
min_required_rows == 3

\* ShapeOk with the column test alone.
ShapeOkColumnsOnly(lc, lr) == ~(lc < min_required_columns)

\* Lines 237-249: the value returned for bounds lc, lr.
ShapeOk(lc, lr) == ~(lc < min_required_columns) /\ ~(lr < min_required_rows)

\* Lines 225-254: the whole operation, run at position from.
ValidateHeaderCount(from, toTrue, toFalse) ==
    /\ pc = from
    /\ before' = Sheet
    /\ last_col' = get_last_col_with_value(ws)
    /\ last_row' = get_last_row_with_value(ws)
    /\ IF ShapeOk(last_col', last_row')
       THEN result' = "True" /\ pc' = toTrue
       ELSE result' = "False" /\ pc' = toFalse
    /\ UNCHANGED <<gridVars, argVars, merged, align, saved, skipped_rows_for_json,
                   version_row, start_col, end_col, row, supported_nodes, data,
                   err, json_file, first>>

validate_header_count == ValidateHeaderCount("validate", "validated", "validated")

\* -------------------------------------------------- highlight_empty_cell
\* Line 158: `for row in (2,)`.
CheckedRow == 2

\* get_column_letter, for the columns of the model.
ColumnLetter == <<"A", "B", "C", "D", "E", "F", "G", "H", "I">>
\* cell.coordinate
coordinate(r, c) == <<ColumnLetter[c]>> \o IntStr(r)

\* Line 161: `val is None or str(val).strip() == ""`.
IsEmptyHeader(val) == val = None \/ strip(str(val)) = <<>>

\* HeaderCols without the last column: range(4, last_col).
HeaderColsExclusive(lc) ==
    [i \in 1..(IF lc - 1 >= FirstVersionCol THEN lc - FirstVersionCol ELSE 0)
        |-> i + FirstVersionCol - 1]

\* Line 159: range(4, last_col + 1).
HeaderCols(lc) ==
    [i \in 1..(IF lc >= FirstVersionCol THEN lc - FirstVersionCol + 1 ELSE 0)
        |-> i + FirstVersionCol - 1]

\* Lines 159-163: the columns whose row-2 cell is highlighted, in loop order.
EmptyHeaderCols(g, lc) ==
    SelectSeq(HeaderCols(lc), LAMBDA c : IsEmptyHeader(Value(g, CheckedRow, c)))

\* Lines 150-185: the whole operation, run at position from.
HighlightEmptyCell(from, to) ==
    /\ pc = from
    /\ before' = Sheet
    /\ last_row' = get_last_row_with_value(ws)
    /\ last_col' = get_last_col_with_value(ws)
    /\ LET cols == EmptyHeaderCols(ws, last_col')
       IN /\ fill' = [p \in DOMAIN fill |->
                        IF p[1] = CheckedRow /\ \E i \in DOMAIN cols : cols[i] = p[2]
                        THEN "red_fill" ELSE fill[p]]
          /\ issues' = [issues EXCEPT !.empty_cell_in_enm_version_row2 =
                          @ \o [i \in DOMAIN cols |-> coordinate(CheckedRow, cols[i])]]
    /\ result' = "True"
    /\ pc' = to
    /\ UNCHANGED <<ws, argVars, merged, align, saved, skipped_rows_for_json,
                   version_row, start_col, end_col, row, supported_nodes, data,
                   err, json_file, first>>

highlight_empty_cell == HighlightEmptyCell("check", "checked")

\* ---------------------------------------------------- remove_node_header
\* ws.delete_rows(idx): the rows below idx move up by one, values and styles
\* with them, and the last row of the sheet is dropped.
DeleteRows(b, idx) ==
    LET Up(f, blank) ==
            [p \in DOMAIN f |->
                IF p[1] < idx THEN f[p]
                ELSE IF p[1] < max_row THEN f[<<p[1] + 1, p[2]>>]
                ELSE blank]
    IN [b EXCEPT !.ws = Up(b.ws, None),
                 !.fill = Up(b.fill, "none"),
                 !.align = Up(b.align, "none")]

\* Line 66: the rows deleted.
IsNodeHeader(cell1, cell2, cell3) ==
    \/ cell1 = cell2 /\ cell2 = cell3
    \/ InNoneOrEmpty(cell2) /\ InNoneOrEmpty(cell3)

\* Lines 60-71: the loop from index to lr over the sheet as it is by then.
\* A missing ledger list raises KeyError at the first append and ends the loop.
RECURSIVE RemoveFrom(_, _, _)
RemoveFrom(b, index, lr) ==
    IF index > lr THEN [b |-> b, ok |-> TRUE]
    ELSE IF IsNodeHeader(b.ws[<<index, 1>>], b.ws[<<index, 2>>], b.ws[<<index, 3>>])
    THEN IF "removed_header_rows" \in DOMAIN b.issues
         THEN RemoveFrom(
                DeleteRows([b EXCEPT !.issues.removed_header_rows = Append(@, index)],
                           index),
                index + 1, lr)
         ELSE [b |-> b, ok |-> FALSE]
    ELSE RemoveFrom(b, index + 1, lr)

\* Lines 55-79: the whole operation, run at position from.
RemoveNodeHeader(from, to) ==
    /\ pc = from
    /\ before' = Sheet
    /\ last_row' = get_last_row_with_value(ws)
    /\ LET r == RemoveFrom(Sheet, FirstDataRow, last_row')
       IN /\ ws' = r.b.ws
          /\ fill' = r.b.fill
          /\ align' = r.b.align
          /\ issues' = r.b.issues
          /\ result' = IF r.ok THEN "True" ELSE "False"
    /\ pc' = to
    /\ UNCHANGED <<argVars, merged, saved, skipped_rows_for_json, last_col,
                   version_row, start_col, end_col, row, supported_nodes, data,
                   err, json_file, first>>

remove_node_header == RemoveNodeHeader("remove", "removed")

\* -------------------------------------------------------------- formatting
\* Lines 25-52: center alignment on every cell whose value is not None.
Formatting(from, to) ==
    /\ pc = from
    /\ before' = Sheet
    /\ align' = [p \in DOMAIN align |-> IF ws[p] # None THEN "center" ELSE align[p]]
    /\ result' = "True"
    /\ pc' = to
    /\ UNCHANGED <<gridVars, argVars, callVars, merged, saved>>

\* -------------------------------------------------------- processing_excel
\* Step 0 letting the run go on after a failed validation.
Step0ValidationIgnored == ValidateHeaderCount("step0", "step1", "step1")

\* Step 0: validation; a failure ends the run.
Step0Validation == ValidateHeaderCount("step0", "step1", "failed")
\* Step 1: unmerge.
Step1Unmerge == UnmergeAndFill("step1", "step2")
\* Step 2: highlight empty cells.
Step2HighlightEmptyCells == HighlightEmptyCell("step2", "step3")
\* Step 3: highlight unusable / node header rows.
Step3HighlightUnusableRows == HighlightUnusableRows("step3", "step4")
\* Step 4: apply formatting.
Step4Formatting == Formatting("step4", "step5")
\* Step 5: save output; PermissionError when the output file cannot be written.
Step5Save ==
    /\ pc = "step5"
    /\ \/ /\ saved' = << [ws |-> ws, fill |-> fill, align |-> align, merged |-> merged] >>
          /\ result' = "True"
          /\ pc' = "saved"
       \/ /\ saved' = saved
          /\ result' = "False"
          /\ pc' = "save_failed"
    /\ UNCHANGED <<gridVars, argVars, callVars, merged, align, before>>

\* The run with the merge resolver ahead of the shape validation.
processing_excel_unmerge_first ==
    \/ UnmergeAndFill("step0", "step1")
    \/ ValidateHeaderCount("step1", "step2", "failed")
    \/ Step2HighlightEmptyCells
    \/ Step3HighlightUnusableRows
    \/ Step4Formatting
    \/ Step5Save

\* Lines 42-87: the stages of a run, in order.
processing_excel ==
    \/ Step0Validation
    \/ Step1Unmerge
    \/ Step2HighlightEmptyCells
    \/ Step3HighlightUnusableRows
    \/ Step4Formatting
    \/ Step5Save

\* ------------------------------- normalize_excel.create_hierarchical_json
\* Line 98: `not tech or not nodetype or not nodename`.
LegacySkipRow(tech, nodetype, nodename) ==
    tech = <<>> \/ nodetype = <<>> \/ nodename = <<>>

\* Lines 105-109: the labels of the populated cells of row r in
\* range(start_col, end_col), a list.
LegacySupportedNodes(g, r, sc, ec) ==
    LET cols == [i \in 1..(IF ec > sc THEN ec - sc ELSE 0) |-> sc + i - 1]
        populated == SelectSeq(cols, LAMBDA c : ~InNoneOrEmpty(Value(g, r, c)))
    IN [i \in DOMAIN populated |-> str(Value(g, VersionRowIdx, populated[i]))]

\* Lines 86-114: the row loop from row r on; acc holds the mapping and the
\* skipped rows so far.
RECURSIVE LegacyRows(_, _, _, _, _, _)
LegacyRows(g, r, lr, sc, ec, acc) ==
    IF r > lr THEN acc
    ELSE LET tech == CleanStr(Value(g, r, 1))
             nodetype == CleanStr(Value(g, r, 2))
             nodename == CleanStr(Value(g, r, 3))
         IN LegacyRows(g, r + 1, lr, sc, ec,
                IF LegacySkipRow(tech, nodetype, nodename)
                THEN [acc EXCEPT !.skipped = Append(@, r)]
                ELSE [acc EXCEPT !.data = Insert(@, tech, nodetype, nodename,
                                                LegacySupportedNodes(g, r, sc, ec))])

\* LegacyEndCol with the default window ending before the last column.
LegacyEndColBeforeLast(vr, lc, ev) ==
    IF ev = <<>> THEN lc ELSE IndexPlus4(vr, ev) + 1

\* Lines 65-70: end_col, exclusive.
LegacyEndCol(vr, lc, ev) ==
    IF ev = <<>> THEN lc + 1 ELSE IndexPlus4(vr, ev) + 1

\* Lines 36-121: what a call returns and writes.
LegacyOutcome(g, sv, ev) ==
    LET lr == get_last_row_with_value(g)
        lc == get_last_col_with_value(g)
        vr == VersionRow(g, lc)
        failure(e, sc, ec) ==
            [result |-> "False", err |-> e, json_file |-> <<>>, skipped |-> <<>>,
             start_col |-> sc, end_col |-> ec]
    IN IF sv # <<>> /\ ~InVersionRow(vr, sv) THEN failure("VersionNotFound", 0, 0)
       ELSE IF ev # <<>> /\ ~InVersionRow(vr, ev) THEN failure("VersionNotFound", 0, 0)
       ELSE LET sc == IF sv = <<>> THEN FirstVersionCol ELSE IndexPlus4(vr, sv)
                ec == LegacyEndCol(vr, lc, ev)
            IN IF sc >= ec THEN failure("InvalidRange", sc, ec)
               ELSE LET acc == LegacyRows(g, FirstDataRow, lr, sc, ec,
                                          [data |-> EmptyDict, skipped |-> <<>>])
                    IN [result |-> "True", err |-> "", json_file |-> <<acc.data>>,
                        skipped |-> acc.skipped, start_col |-> sc, end_col |-> ec]

\* Lines 29-125: the whole call; its outcome is kept in `first`, its skipped
\* rows join the ledger, and the sheet is then given to lib/post_process.py.
legacy_create_hierarchical_json ==
    /\ pc = "legacy"
    /\ LET o == LegacyOutcome(ws, start_version, end_version)
       IN /\ first' = <<o>>
          /\ issues' = [issues EXCEPT !.skipped_rows_during_json_creation = @ \o o.skipped]
    /\ pc' = "start"
    /\ UNCHANGED <<ws, fill, argVars, bookVars, skipped_rows_for_json, last_row, last_col,
                   version_row, start_col, end_col, row, supported_nodes, data, result,
                   err, json_file>>

\* ------------------------------------------------------------------- main
\* load_workbook on the saved file: a cell saved with the empty string comes
\* back as the empty string or as None, every other cell as it was saved.
Reloads(g) ==
    { [p \in DOMAIN g |-> IF p \in S THEN None ELSE g[p]] :
        S \in SUBSET {p \in DOMAIN g : g[p] = EmptyStr} }

\* node_details_parser.main after a successful run, with -j: the extraction is
\* called on the sheet loaded from the saved workbook with an empty skipped
\* list.  A failed run returns before this point.
CreateJson ==
    /\ pc = "saved"
    /\ result = "True"
    /\ ws' \in Reloads(saved[1].ws)
    /\ skipped_rows_for_json' = <<>>
    /\ result' = "none"
    /\ pc' = "start"
    /\ UNCHANGED <<fill, issues, argVars, bookVars, last_row, last_col, version_row,
                   start_col, end_col, row, supported_nodes, data, err, json_file,
                   first>>

\* node_details_parser.main: the processing run, then the extraction.
main ==
    \/ processing_excel
    \/ CreateJson
    \/ Extract

\* --------------------------------------------------- the grids considered
\* Version-label letters by column: column 4 is "a", column 5 is "b", ...
Alpha == <<"a", "b", "c", "d", "e", "f", "g", "h">>
Label(c) == Str(<<Alpha[c - 3]>>)
KeyHeader == <<Str(<<"T">>), Str(<<"N">>), Str(<<"V">>)>>
CommentLabel == Str(<<"c", "m">>)

HeaderKinds == {"distinct", "padded", "numeric", "dup", "gapNone", "gapBlank",
                "cmNone", "cmClash"}

\* Row 2 of a sheet whose last header column is w.
HeaderOf(kind, w) ==
    [c \in Cols |->
        IF c > w THEN None
        ELSE IF c <= 3 THEN KeyHeader[c]
        ELSE IF c = w THEN
            (CASE kind = "cmNone" -> None
               [] kind = "cmClash" -> Label(4)
               [] OTHER -> CommentLabel)
        ELSE IF c = 4 /\ kind = "padded" THEN Str(<<" ", "a", "\t">>)
        ELSE IF c = 4 /\ kind = "numeric" THEN Num(12)
        ELSE IF c = 5 /\ kind = "dup" THEN Label(4)
        ELSE IF c = 5 /\ kind = "gapNone" THEN None
        ELSE IF c = 5 /\ kind = "gapBlank" THEN Str(<<" ">>)
        ELSE Label(c)]

CellKinds == {"none", "all", "first", "mid", "last", "blank", "zero"}

\* The value a populated version cell of column c holds.
Mark(c) == Str(<<"x", Alpha[c - 3]>>)

CellOf(kind, c, w) ==
    CASE kind = "none" -> None
      [] kind = "all" -> Mark(c)
      [] kind = "first" -> IF c = 4 THEN Mark(c) ELSE None
      [] kind = "mid" -> IF c = 5 THEN Mark(c) ELSE None
      [] kind = "last" -> IF c = w - 1 THEN Mark(c) ELSE None
      [] kind = "blank" -> IF c = 5 THEN Str(<<" ">>) ELSE None
      [] kind = "zero" -> IF c = 4 THEN EmptyStr ELSE IF c = 5 THEN Num(0) ELSE None

\* A data row of a sheet whose last column is w.
RowOf(spec, w) ==
    [c \in Cols |->
        IF c > w THEN None
        ELSE IF c <= 3 THEN spec.keys[c]
        ELSE IF c = w THEN spec.cm
        ELSE CellOf(spec.cells, c, w)]

RowSpec(keys, cells, cm) == [keys |-> keys, cells |-> cells, cm |-> cm]

sA == Str(<<"a">>)
sB == Str(<<"b">>)
sC == Str(<<"c">>)
sBlank == Str(<<" ">>)
KeysValid == <<sA, sB, sC>>
KeysPadded == <<Str(<<" ", "a">>), Str(<<"b", " ">>), sC>>
KeysSibling == <<sA, sB, Str(<<"d">>)>>
KeysNumeric == <<Num(5), Str(<<"5">>), Num(5)>>
KeysEqual == <<sA, sA, sA>>
KeysEqualPadded == <<sA, Str(<<" ", "a">>), Str(<<"a", " ">>)>>
KeysNoTech == <<None, sB, sC>>
KeysBlankType == <<sA, sBlank, sC>>
KeysNoVersion == <<sA, sB, EmptyStr>>
KeysOnlyTech == <<sA, None, None>>
KeysNone == <<None, None, None>>
KeysBlank == <<EmptyStr, sBlank, None>>

Comments == {None, Str(<<" ", "c", " ">>), sBlank}

\* Rows used at every row position.
BasicRows ==
    { RowSpec(KeysValid, "all", None),
      RowSpec(KeysPadded, "mid", Str(<<"n">>)),
      RowSpec(KeysEqual, "all", None),
      RowSpec(KeysNone, "none", None) }

\* Rows used at one row position of a sheet at a time.
RichRows ==
    { RowSpec(KeysValid, ck, cm) : ck \in CellKinds, cm \in Comments }
    \cup { RowSpec(KeysPadded, "none", None),
           RowSpec(KeysSibling, "all", None),
           RowSpec(KeysNumeric, "all", Str(<<"n">>)),
           RowSpec(KeysEqualPadded, "mid", None),
           RowSpec(KeysNoTech, "all", Str(<<"n">>)),
           RowSpec(KeysBlankType, "all", None),
           RowSpec(KeysNoVersion, "first", None),
           RowSpec(KeysOnlyTech, "none", None),
           RowSpec(KeysNone, "all", None),
           RowSpec(KeysBlank, "none", None) }

DataRows == FirstDataRow..MaxRow

RowChoices ==
    { f \in [DataRows -> RichRows \cup BasicRows] :
        Cardinality({r \in DataRows : f[r] \notin BasicRows}) <= 1 }

\* Sheets whose rows are each a plain valid row or an empty row.
PlainChoices ==
    [DataRows -> {RowSpec(KeysValid, "all", None), RowSpec(KeysNone, "none", None)}]

\* The sheet: a title in row 1, the header in row 2, the data rows below.
Grid(hk, w, f) ==
    [p \in Rows \X Cols |->
        IF p[1] = 1 THEN (IF p[2] = 1 THEN Str(<<"T">>) ELSE None)
        ELSE IF p[1] = VersionRowIdx THEN HeaderOf(hk, w)[p[2]]
        ELSE RowOf(f[p[1]], w)[p[2]]]

\* start_version / end_version arguments: a label, a padded label, an absent one.
Versions == {<<>>, <<"a">>, <<"b">>, <<"c">>, <<" ", "a">>, <<"1", "2">>, <<"z">>}

\* Sheets narrower than the model's width.
Widths == 3..(MaxCol - 1)

NoFill == [p \in Rows \X Cols |-> "none"]
NoAlign == [p \in Rows \X Cols |-> "none"]

\* main(): the ledger a run starts with.
NewIssues ==
    [ merged_empty_cells |-> <<>>,
      empty_cell_in_enm_version_row2 |-> <<>>,
      empty_cells_after_unmerge |-> <<>>,
      unusable_rows |-> <<>>,
      incomplete_rows |-> <<>>,
      node_header_rows |-> <<>> ]

\* The sheets and arguments an extraction is run on.
InitGrid ==
    \/ \E a \in { <<"distinct", <<>>, <<>>>>, <<"distinct", <<"b">>, <<>>>>,
                    <<"distinct", <<"a">>, <<"b">>>>, <<"padded", <<>>, <<>>>>,
                    <<"cmClash", <<>>, <<>>>> },
          f \in RowChoices :
          /\ ws = Grid(a[1], MaxCol, f)
          /\ start_version = a[2]
          /\ end_version = a[3]
    \/ \E hk \in HeaderKinds, f \in PlainChoices :
          /\ ws = Grid(hk, MaxCol, f)
          /\ start_version \in Versions
          /\ end_version \in Versions
    \/ \E w \in Widths, f \in PlainChoices :
          /\ ws = Grid("distinct", w, f)
          /\ start_version \in {<<>>, <<"a">>}
          /\ end_version \in {<<>>, <<"a">>, <<"b">>}

\* The locals of a call that has not started.
InitCall ==
    /\ skipped_rows_for_json = <<>>
    /\ last_row = 0
    /\ last_col = 0
    /\ version_row = <<>>
    /\ start_col = 0
    /\ end_col = 0
    /\ row = FirstDataRow - 1
    /\ supported_nodes = EmptyDict
    /\ data = EmptyDict
    /\ result = "none"
    /\ err = ""
    /\ json_file = <<>>
    /\ first = <<>>
    /\ saved = <<>>
    /\ before = <<>>

Init ==
    /\ InitGrid
    /\ fill = NoFill
    /\ align = NoAlign
    /\ merged = <<>>
    /\ issues = NewIssues
    /\ InitCall
    /\ pc = "start"

Next == Extract

\* One extraction call on each sheet.
Spec == Init /\ [][Next]_vars

\* The sheets and arguments two successive calls are run on.
InitGridTwice ==
    \/ \E a \in { <<"distinct", <<"b">>, <<>>>>, <<"padded", <<>>, <<>>>>,
                    <<"cmClash", <<>>, <<>>>> },
          f \in RowChoices :
          /\ ws = Grid(a[1], MaxCol, f)
          /\ start_version = a[2]
          /\ end_version = a[3]
    \/ \E hk \in HeaderKinds, f \in PlainChoices,
          a \in { <<<<"a">>, <<"z">>>>, <<<<"b">>, <<"b">>>>, <<<<"a">>, <<"c">>>> } :
          /\ ws = Grid(hk, MaxCol, f)
          /\ start_version = a[1]
          /\ end_version = a[2]

InitTwice ==
    /\ InitGridTwice
    /\ fill = NoFill
    /\ align = NoAlign
    /\ merged = <<>>
    /\ issues = NewIssues
    /\ InitCall
    /\ pc = "start"

NextTwice == Extract \/ CallAgain

\* Two successive extraction calls on each sheet.
SpecTwice == InitTwice /\ [][NextTwice]_vars

\* The sheets the row classifier is run on.
InitClassify ==
    /\ \E w \in Widths \cup {MaxCol}, f \in RowChoices :
          ws = Grid("distinct", w, f)
    /\ start_version = <<>>
    /\ end_version = <<>>
    /\ fill = NoFill
    /\ align = NoAlign
    /\ merged = <<>>
    /\ issues = NewIssues
    /\ InitCall
    /\ pc = "classify"

NextClassify == highlight_unusable_rows

\* One classification pass on each sheet.
SpecClassify == InitClassify /\ [][NextClassify]_vars

\* Scenario A: labels v1, v2, v3 in columns 4-6, one data row 5G, gNB, R1, X, -, Y.
\* The sheet's other cells (row 1, the key headers' neighbour in column 7, the
\* blank cell's and the comment cell's kind of emptiness) vary.
ScenarioA(title7, label7, blank5, comment7) ==
    [p \in Rows \X Cols |->
        CASE p[1] = 1 /\ p[2] = 1 -> Str(<<"T">>)
          [] p[1] = 1 /\ p[2] = 7 -> title7
          [] p[1] = 2 /\ p[2] <= 3 -> KeyHeader[p[2]]
          [] p[1] = 2 /\ p[2] = 4 -> Str(<<"v", "1">>)
          [] p[1] = 2 /\ p[2] = 5 -> Str(<<"v", "2">>)
          [] p[1] = 2 /\ p[2] = 6 -> Str(<<"v", "3">>)
          [] p[1] = 2 /\ p[2] = 7 -> label7
          [] p[1] = 3 /\ p[2] = 1 -> Str(<<"5", "G">>)
          [] p[1] = 3 /\ p[2] = 2 -> Str(<<"g", "N", "B">>)
          [] p[1] = 3 /\ p[2] = 3 -> Str(<<"R", "1">>)
          [] p[1] = 3 /\ p[2] = 4 -> Str(<<"X">>)
          [] p[1] = 3 /\ p[2] = 5 -> blank5
          [] p[1] = 3 /\ p[2] = 6 -> Str(<<"Y">>)
          [] p[1] = 3 /\ p[2] = 7 -> comment7
          [] OTHER -> None]

InitA ==
    /\ \E title7 \in {None, Str(<<"t">>)},
          label7 \in {None, CommentLabel, sBlank},
          blank5 \in {None, EmptyStr},
          comment7 \in {None, EmptyStr, sBlank} :
          ws = ScenarioA(title7, label7, blank5, comment7)
    /\ start_version = <<>>
    /\ end_version = <<>>
    /\ fill = NoFill
    /\ align = NoAlign
    /\ merged = <<>>
    /\ issues = NewIssues
    /\ InitCall
    /\ pc = "start"

\* One extraction call on each Scenario A sheet.
SpecA == InitA /\ [][Next]_vars


\* Merged ranges of a sheet: the title bar, two tech cells, two version cells
\* (Scenario E) and a block of version cells.
TitleRange == Range(1, 4, 1, 6)
TechRange == Range(3, 1, 4, 1)
PairRange == Range(3, 4, 3, 5)
BlockRange == Range(4, 5, 5, 6)
Ranges == {TitleRange, TechRange, PairRange, BlockRange}

\* What the anchor of a merged range holds.
AnchorValues == {None, EmptyStr, sBlank, Str(<<"m">>)}

\* The merged ranges of a sheet, in list order, each with its anchor's value.
MergeChoices ==
    {<<>>}
    \cup { <<[range |-> m, value |-> v]>> : m \in Ranges, v \in AnchorValues }
    \cup { ms \in { <<[range |-> m, value |-> v], [range |-> n, value |-> w]>> :
                       m \in Ranges, v \in AnchorValues, n \in Ranges, w \in AnchorValues } :
             ms[1].range # ms[2].range }

\* A loaded sheet with merged ranges: the anchor holds the range's value and
\* the other cells of the range hold None.
WithMerges(g, ms) ==
    [p \in DOMAIN g |->
        IF \E i \in DOMAIN ms : p = Anchor(ms[i].range)
        THEN ms[CHOOSE i \in DOMAIN ms : p = Anchor(ms[i].range)].value
        ELSE IF \E i \in DOMAIN ms : p \in RangeCells(ms[i].range) THEN None
        ELSE g[p]]
MergedOf(ms) == [i \in DOMAIN ms |-> ms[i].range]

\* The locals of create_hierarchical_json, not in use.
NoCall ==
    /\ start_version = <<>>
    /\ end_version = <<>>
    /\ InitCall

InitMerge ==
    /\ \E f \in {[r \in DataRows |-> RowSpec(KeysValid, "all", None)],
                 [r \in DataRows |-> RowSpec(KeysPadded, "mid", Str(<<"n">>))]},
          ms \in MergeChoices :
          /\ ws = WithMerges(Grid("distinct", MaxCol, f), ms)
          /\ merged = MergedOf(ms)
    /\ fill = NoFill
    /\ align = NoAlign
    /\ issues = NewIssues
    /\ NoCall
    /\ pc = "unmerge"

NextMerge == unmerge_and_fill \/ unmerge_and_fill_again

\* Two successive merge resolutions on each sheet.
SpecMerge == InitMerge /\ [][NextMerge]_vars


\* Values a cell of a sparse sheet holds.
SparseValues == {Str(<<"x">>), EmptyStr, sBlank, Num(0)}

\* Sheets with at most two cells set, anywhere: the empty sheet, sheets of
\* blanks only, sheets short of or just at the required shape.
SparseGrids ==
    {[p \in Rows \X Cols |-> None]}
    \cup {[p \in Rows \X Cols |-> IF p = q THEN v ELSE None] :
            q \in Rows \X Cols, v \in SparseValues}
    \cup {[p \in Rows \X Cols |-> IF p = q[1] THEN v[1] ELSE IF p = q[2] THEN v[2] ELSE None] :
            q \in (Rows \X {1, 4, 5, MaxCol}) \X ({2, 3} \X Cols),
            v \in {<<Str(<<"x">>), Str(<<"x">>)>>, <<Str(<<"x">>), sBlank>>,
                   <<EmptyStr, Str(<<"x">>)>>, <<sBlank, EmptyStr>>}}

\* The sheets the shape validator and the header check are run on.
InitSheet ==
    /\ \/ ws \in SparseGrids
       \/ \E hk \in HeaderKinds, w \in Widths \cup {MaxCol}, f \in PlainChoices :
             ws = Grid(hk, w, f)
    /\ fill = NoFill
    /\ align = NoAlign
    /\ merged = <<>>
    /\ issues = NewIssues
    /\ NoCall

InitShape == InitSheet /\ pc = "validate"
NextShape == validate_header_count
\* One shape validation on each sheet.
SpecShape == InitShape /\ [][NextShape]_vars

InitCheck == InitSheet /\ pc = "check"
NextCheck == highlight_empty_cell
\* One header check on each sheet.
SpecCheck == InitCheck /\ [][NextCheck]_vars


\* normalize_excel.py: the ledger its run starts with.
LegacyIssues ==
    [ merged_empty_cells |-> <<>>,
      empty_cells_after_unmerge |-> <<>>,
      removed_header_rows |-> <<>>,
      skipped_rows_during_json_creation |-> <<>> ]

\* Data rows of the sheets header removal is run on: valid rows, repeated
\* headers, rows with only a tech, empty rows and rows its test lets pass.
RemovalRows ==
    { RowSpec(KeysValid, "all", None),
      RowSpec(KeysSibling, "mid", Str(<<"n">>)),
      RowSpec(KeysEqual, "all", None),
      RowSpec(KeysOnlyTech, "none", None),
      RowSpec(KeysNone, "none", None),
      RowSpec(KeysNoTech, "all", None),
      RowSpec(KeysEqualPadded, "mid", None) }

InitRemove ==
    /\ \E f \in [DataRows -> RemovalRows] : ws = Grid("distinct", MaxCol, f)
    /\ fill = NoFill
    /\ align = NoAlign
    /\ merged = <<>>
    /\ issues = LegacyIssues
    /\ NoCall
    /\ pc = "remove"

NextRemove == remove_node_header
\* One header removal on each sheet.
SpecRemove == InitRemove /\ [][NextRemove]_vars


\* A key header merged with the cell below it.
HeadRange == Range(2, 1, 3, 1)

\* The merged ranges of the sheets a run is given.
RunMergeChoices ==
    LET ms == {[range |-> m, value |-> v] : m \in {TitleRange, HeadRange, PairRange},
                                          v \in {None, Str(<<"m">>)}}
    IN {<<>>} \cup {<<a>> : a \in ms}
       \cup {s \in {<<a, b>> : a \in ms, b \in ms} : s[1].range # s[2].range}

\* The sheets a processing run is given: full and narrow ones, with and
\* without data rows, with merged ranges reaching past their populated cells.
InitRun ==
    /\ \E w \in Widths \cup {MaxCol}, f \in PlainChoices, ms \in RunMergeChoices :
          /\ ws = WithMerges(Grid("distinct", w, f), ms)
          /\ merged = MergedOf(ms)
    /\ fill = NoFill
    /\ align = NoAlign
    /\ issues = NewIssues
    /\ NoCall
    /\ pc = "step0"

NextRun == processing_excel
\* One processing run on each sheet.
SpecRun == InitRun /\ [][NextRun]_vars


\* Data rows of the sheets main is given: any row in the first data row, plain
\* rows below it.
MainChoices ==
    { [r \in DataRows |-> IF r = FirstDataRow THEN x ELSE f[r]] :
        x \in RichRows \cup BasicRows, f \in PlainChoices }

\* The merged ranges of those sheets.
MainMergeChoices ==
    { <<>>, <<[range |-> TitleRange, value |-> None]>>,
      <<[range |-> BlockRange, value |-> Str(<<"m">>)]>> }

\* The sheets and arguments main is given: the sheets of a processing run, and
\* full-width sheets with every kind of data row.
InitMain ==
    /\ \/ /\ \E w \in Widths \cup {MaxCol}, f \in PlainChoices, ms \in RunMergeChoices :
                /\ ws = WithMerges(Grid("distinct", w, f), ms)
                /\ merged = MergedOf(ms)
          /\ start_version = <<>>
          /\ end_version = <<>>
       \/ /\ \E hk \in {"distinct", "padded"}, f \in MainChoices, ms \in MainMergeChoices :
                /\ ws = WithMerges(Grid(hk, MaxCol, f), ms)
                /\ merged = MergedOf(ms)
          /\ \E a \in {<<<<>>, <<>>>>, <<<<"a">>, <<"b">>>>} :
                /\ start_version = a[1]
                /\ end_version = a[2]
    /\ fill = NoFill
    /\ align = NoAlign
    /\ issues = NewIssues
    /\ InitCall
    /\ pc = "step0"

NextMain == main
\* One invocation of main on each sheet.
SpecMain == InitMain /\ [][NextMain]_vars


\* A ledger that already holds entries when a component is called with it.
PriorIssues ==
    [ merged_empty_cells |-> <<Range(1, 1, 1, 2)>>,
      empty_cell_in_enm_version_row2 |-> <<coordinate(2, 5)>>,
      empty_cells_after_unmerge |-> <<>>,
      unusable_rows |-> <<MaxRow>>,
      incomplete_rows |-> <<3>>,
      node_header_rows |-> <<4, 4>> ]

\* The sheets and ledgers the ledger-writing components are called with, each
\* component on its own.
InitLedger ==
    /\ \E hk \in {"distinct", "gapBlank"}, f \in MainChoices, ms \in MainMergeChoices :
          /\ ws = WithMerges(Grid(hk, MaxCol, f), ms)
          /\ merged = MergedOf(ms)
    /\ fill = NoFill
    /\ align = NoAlign
    /\ issues \in {NewIssues, PriorIssues}
    /\ NoCall
    /\ pc \in {"unmerge", "check", "classify"}

NextLedger == unmerge_and_fill \/ highlight_empty_cell \/ highlight_unusable_rows
\* One call of one ledger-writing component on each sheet and ledger.
SpecLedger == InitLedger /\ [][NextLedger]_vars


\* The sheets and arguments both extractor variants are run on.
InitGridLegacy ==
    \/ \E f \in MainChoices,
          a \in { <<<<>>, <<>>>>, <<<<"a">>, <<"a">>>>, <<<<"b">>, <<>>>> } :
          /\ ws = Grid("distinct", MaxCol, f)
          /\ start_version = a[1]
          /\ end_version = a[2]
    \/ \E hk \in HeaderKinds, f \in PlainChoices :
          /\ ws = Grid(hk, MaxCol, f)
          /\ start_version \in {<<>>, <<"a">>}
          /\ end_version \in {<<>>, <<"a">>, <<"b">>, <<"z">>}
    \/ \E w \in Widths, f \in PlainChoices :
          /\ ws = Grid("distinct", w, f)
          /\ start_version = <<>>
          /\ end_version = <<>>

InitLegacy ==
    /\ InitGridLegacy
    /\ fill = NoFill
    /\ align = NoAlign
    /\ merged = <<>>
    /\ issues = LegacyIssues
    /\ InitCall
    /\ pc = "legacy"

NextLegacy == legacy_create_hierarchical_json \/ Extract
\* The legacy extraction, then the lib extraction, on each sheet.
SpecLegacy == InitLegacy /\ [][NextLegacy]_vars

\* =================================================================== claims
\* The terms the claims are stated in, read off the sheet in the state.
LastRow == get_last_row_with_value(ws)
LastCol == get_last_col_with_value(ws)

\* "None or blank after trimming".
IsBlank(v) == v = None \/ (v.t = "str" /\ \A i \in DOMAIN v.s : v.s[i] \in Whitespace)

\* The trimmed text of a cell (empty for None).
Text(v) == IF v = None THEN <<>> ELSE strip(str(v))

KeyText(r, i) == Text(Value(ws, r, i))
SomeKeyEmpty(r) == \E i \in 1..3 : KeyText(r, i) = <<>>
KeysTextEqual(r) == KeyText(r, 1) = KeyText(r, 2) /\ KeyText(r, 2) = KeyText(r, 3)
Skipped(r) == SomeKeyEmpty(r) \/ KeysTextEqual(r)

\* The ascending list of the data rows 3..LastRow that satisfy P.
RowList(P(_)) ==
    SelectSeq([i \in 1..(IF LastRow >= 3 THEN LastRow - 2 ELSE 0) |-> i + 2], P)

HasPath(d, t, n, v) ==
    /\ DictHas(d, t)
    /\ DictHas(DictGet(d, t), n)
    /\ DictHas(DictGet(DictGet(d, t), n), v)

Succeeded == pc = "done" /\ result = "True"

\* The state right after the loop body ran for data row `row`.
RowDone == pc = "rows" /\ row >= 3

\* A window cell that holds a value: not None and not the empty string.
Populated(r, c) == Value(ws, r, c) # None /\ Value(ws, r, c) # EmptyStr
WindowCols == start_col..end_col
WindowEmpty(r) == \A c \in WindowCols : ~Populated(r, c)

\* C1: after a successful extraction started with an empty list, skipped_rows is
\* exactly the ascending list of the rows 3..last_row with an empty trimmed key
\* or three textually equal trimmed keys, and no such row has an entry in the
\* output mapping.
C1_SkippedRows ==
    Succeeded =>
        /\ skipped_rows_for_json = RowList(Skipped)
        /\ \A r \in 3..LastRow :
              Skipped(r) =>
                  ~HasPath(json_file[1], KeyText(r, 1), KeyText(r, 2), KeyText(r, 3))

\* Two rows are skipped, one for a missing key and one for equal keys, the
\* latter with populated version cells.
C1_Witness ==
    /\ Succeeded
    /\ Len(skipped_rows_for_json) >= 2
    /\ \E r \in 3..LastRow : SomeKeyEmpty(r) /\ ~KeysTextEqual(r)
    /\ \E r \in 3..LastRow : KeysTextEqual(r) /\ ~SomeKeyEmpty(r) /\ ~WindowEmpty(r)
    /\ json_file[1] # EmptyDict

\* The trimmed row-2 label of column c, and the comment of row r.
LabelText(c) == Text(Value(ws, VersionRowIdx, c))
CommentText(r) == Text(Value(ws, r, LastCol))
HeaderDistinct ==
    \A c1, c2 \in 4..LastCol : c1 # c2 => LabelText(c1) # LabelText(c2)

\* The entry the comment of row r makes.
IsCommentEntry(e, r) ==
    /\ e.k = str(Value(ws, VersionRowIdx, LastCol))
    /\ e.v = Str(CommentText(r))

\* C2: for a non-skipped row and pairwise distinct labels, the per-row mapping
\* holds, apart from the comment entry, exactly one entry per populated window
\* column, keyed by the column's trimmed row-2 label and valued by the cell's
\* literal value, and no entry of any other column.
C2_RowMapping ==
    (RowDone /\ ~Skipped(row) /\ HeaderDistinct) =>
        LET sn == supported_nodes
            ver == {i \in DOMAIN sn : ~IsCommentEntry(sn[i], row)}
        IN /\ \A c \in WindowCols :
                 Populated(row, c) =>
                     /\ Cardinality({i \in ver : sn[i].k = LabelText(c)}) = 1
                     /\ \A i \in ver :
                           sn[i].k = LabelText(c) => sn[i].v = Value(ws, row, c)
           /\ \A i \in ver :
                 \E c \in WindowCols : Populated(row, c) /\ sn[i].k = LabelText(c)

\* C3: a non-skipped row whose window cells are all empty (None or the empty
\* string) leaves the output mapping as it was, whatever its comment, and a key
\* triple that only such rows carry has no entry in the output.
C3_EmptyRowNoEntry ==
    /\ [][ (pc = "rows" /\ row' = row + 1 /\ ~Skipped(row') /\ WindowEmpty(row'))
              => data' = data ]_vars
    /\ [](Succeeded =>
            \A r \in 3..LastRow :
                (/\ ~Skipped(r)
                 /\ \A q \in 3..LastRow :
                       (\A i \in 1..3 : KeyText(q, i) = KeyText(r, i)) => WindowEmpty(q))
                => ~HasPath(json_file[1], KeyText(r, 1), KeyText(r, 2), KeyText(r, 3)))

\* The loop body has just run for a non-skipped row with a comment and no
\* populated window cell, while a cell outside the window is populated.
C3_Witness ==
    /\ RowDone
    /\ ~Skipped(row)
    /\ WindowEmpty(row)
    /\ CommentText(row) # <<>>
    /\ \E c \in 4..(LastCol - 1) : Populated(row, c)
    /\ ~HasPath(data, KeyText(row, 1), KeyText(row, 2), KeyText(row, 3))

\* The comment column's key, and the mapping of row r before the comment joins.
CommentKey == str(Value(ws, VersionRowIdx, LastCol))
WindowEntries(r) == SupportedNodes(ws, r, start_col, end_col)
HasCommentEntry(r) == \E i \in DOMAIN supported_nodes : IsCommentEntry(supported_nodes[i], r)
CommentDue(r) == ~WindowEmpty(r) /\ CommentText(r) # <<>>

\* The comment entry is one more entry after the unchanged version entries.
CommentAdded(r) ==
    /\ Len(supported_nodes) = Len(WindowEntries(r)) + 1
    /\ \A i \in DOMAIN WindowEntries(r) : supported_nodes[i] = WindowEntries(r)[i]

\* The comment took the place of the value of the entry with its key.
CommentReplaced(r) ==
    /\ Len(supported_nodes) = Len(WindowEntries(r))
    /\ \A i \in DOMAIN WindowEntries(r) :
          /\ supported_nodes[i].k = WindowEntries(r)[i].k
          /\ supported_nodes[i].v =
                IF supported_nodes[i].k = CommentKey THEN Str(CommentText(r))
                ELSE WindowEntries(r)[i].v

\* C4 as claimed: for every non-skipped row the mapping has the comment entry
\* iff a window cell is populated and the trimmed comment is non-empty, and
\* the injection adds exactly one entry and changes no version-label entry.
C4_CommentEntry ==
    (RowDone /\ ~Skipped(row)) =>
        /\ HasCommentEntry(row) <=> CommentDue(row)
        /\ CommentDue(row) => CommentAdded(row)

\* C4 as the code has it: the comment entry is present iff a window cell is
\* populated and the trimmed comment is non-empty; it is one added entry after
\* unchanged version entries when no populated window column has the comment
\* column's label, and otherwise it replaces the value under that label.
C4_CommentEntryAmended ==
    (RowDone /\ ~Skipped(row)) =>
        /\ HasCommentEntry(row) <=> CommentDue(row)
        /\ CommentDue(row) =>
              IF DictHas(WindowEntries(row), CommentKey)
              THEN CommentReplaced(row)
              ELSE CommentAdded(row)
        /\ ~CommentDue(row) => supported_nodes = WindowEntries(row)

\* A non-skipped row with populated window cells and a padded comment has just
\* been processed, and its mapping ends with the trimmed comment.
C4_Witness ==
    /\ RowDone
    /\ ~Skipped(row)
    /\ CommentDue(row)
    /\ Value(ws, row, LastCol) # Str(CommentText(row))
    /\ ~DictHas(WindowEntries(row), CommentKey)
    /\ supported_nodes[Len(supported_nodes)] =
          [k |-> CommentKey, v |-> Str(CommentText(row))]

\* The label span of the header, columns 4..last_col - 1.
SpanCols == 4..(LastCol - 1)
HeaderComplete == \A c \in SpanCols : ~IsBlank(Value(ws, VersionRowIdx, c))
Present(x) == \E c \in SpanCols : LabelText(c) = x
Absent(x) == x # <<>> /\ ~Present(x)
FirstMatch(x) == CHOOSE c \in SpanCols : LabelText(c) = x /\ \A b \in 4..(c - 1) : LabelText(b) # x
StartExpected == IF start_version = <<>> THEN 4 ELSE FirstMatch(start_version)
EndExpected == IF end_version = <<>> THEN LastCol - 1 ELSE FirstMatch(end_version)
Done == pc = "done"

\* C5: a finished call has failed with HeaderIncomplete, with no document
\* written, iff some row-2 cell of columns 4..last_col-1 is None or blank,
\* whatever start_version and end_version are.
C5_HeaderIncomplete ==
    Done =>
        /\ err = "HeaderIncomplete" <=> ~HeaderComplete
        /\ err = "HeaderIncomplete" => result = "False" /\ json_file = <<>>

\* The call failed on a blank label though start_version names no label and
\* the first label is present.
C5_Witness ==
    /\ Done
    /\ err = "HeaderIncomplete"
    /\ Absent(start_version)
    /\ ~IsBlank(Value(ws, VersionRowIdx, 4))
    /\ \E c \in SpanCols : Value(ws, VersionRowIdx, c) = sBlank

\* C6: with a complete header, a non-empty start_version or end_version that
\* equals no trimmed label makes the call fail with VersionNotFound; a resolved
\* start_col (end_col) is the column of the first match of a non-empty
\* start_version (end_version), and 4 (last_col - 1) for an empty one.
C6_VersionWindow ==
    HeaderComplete =>
        /\ (Done /\ (Absent(start_version) \/ Absent(end_version)))
              => (err = "VersionNotFound" /\ result = "False")
        /\ (Done /\ err = "VersionNotFound")
              => (Absent(start_version) \/ Absent(end_version))
        /\ (pc \in {"end_col", "range", "rows"} \/ (Done /\ ~Absent(start_version)))
              => start_col = StartExpected
        /\ (pc \in {"range", "rows"} \/ (Done /\ err # "VersionNotFound"))
              => end_col = EndExpected

\* start_version names a label that occurs twice and resolved to its first
\* column, and the call failed on an end_version that names no label.
C6_Witness ==
    /\ Done
    /\ HeaderComplete
    /\ err = "VersionNotFound"
    /\ start_version # <<>>
    /\ Cardinality({c \in SpanCols : LabelText(c) = start_version}) = 2
    /\ start_col = 4
    /\ Absent(end_version)

\* C7: a finished call has failed with InvalidRange iff both window columns
\* resolved and start_col >= end_col; the same existing label as start and end
\* fails so, and a successful call has a window of at least two columns.
C7_InvalidRange ==
    Done =>
        /\ err = "InvalidRange" <=>
              (/\ HeaderComplete
               /\ ~Absent(start_version)
               /\ ~Absent(end_version)
               /\ StartExpected >= EndExpected)
        /\ (HeaderComplete /\ Present(start_version) /\ end_version = start_version)
              => err = "InvalidRange"
        /\ err = "InvalidRange" => result = "False" /\ json_file = <<>>
        /\ result = "True" => end_col - start_col + 1 >= 2

\* Scenario D: the same existing label as start_version and end_version.
C7_Witness ==
    /\ Done
    /\ err = "InvalidRange"
    /\ start_version # <<>>
    /\ end_version = start_version
    /\ start_col = end_col
    /\ start_col > 4

Entry(k, v) == [k |-> k, v |-> v]

\* {"5G": {"gNB": {"R1": {"v1": "X", "v3": "Y"}}}}
ScenarioAMapping ==
    << Entry(<<"5", "G">>,
        << Entry(<<"g", "N", "B">>,
            << Entry(<<"R", "1">>,
                << Entry(<<"v", "1">>, Str(<<"X">>)),
                   Entry(<<"v", "3">>, Str(<<"Y">>)) >>) >>) >>) >>

\* C8: on a Scenario A sheet with empty start_version and end_version the call
\* succeeds and writes exactly 5G -> gNB -> R1 -> {v1: X, v3: Y}, with no row
\* skipped.
C8_ScenarioA ==
    Done =>
        /\ result = "True"
        /\ json_file = <<ScenarioAMapping>>
        /\ skipped_rows_for_json = <<>>

\* The call on a Scenario A sheet has returned, with column 7 the last column
\* of the sheet and all of columns 4-6 in the window.
C8_Witness ==
    /\ Done
    /\ start_version = <<>>
    /\ end_version = <<>>
    /\ Value(ws, 3, 1) = Str(<<"5", "G">>)
    /\ LabelText(6) = <<"v", "3">>
    /\ last_col = 7
    /\ end_col = 6

KeyTrim(r, i) ==
    LET v == Value(ws, r, i) IN IF v.t = "str" THEN Str(strip(v.s)) ELSE v
EmptyKeys(r) == {i \in 1..3 : KeyTrim(r, i) = None \/ KeyTrim(r, i) = EmptyStr}
KeysSame(r) == KeyTrim(r, 1) = KeyTrim(r, 2) /\ KeyTrim(r, 2) = KeyTrim(r, 3)
AllEmptyRow(r) == Cardinality(EmptyKeys(r)) = 3
HeaderRow(r) == Cardinality(EmptyKeys(r)) = 0 /\ KeysSame(r)
PartialRow(r) == Cardinality(EmptyKeys(r)) \in {1, 2}
ValidRow(r) == Cardinality(EmptyKeys(r)) = 0 /\ ~KeysSame(r)
Elems(s) == {s[i] : i \in DOMAIN s}
NoDuplicates(s) == Cardinality(Elems(s)) = Len(s)
Classified == pc = "classified"

\* C10: after the classification pass every row 3..last_row is in exactly one
\* of the four classes; it is in unusable_rows iff all three keys are empty, in
\* node_header_rows iff they are equal and non-empty, in incomplete_rows iff one
\* or two are empty, in no list iff it is valid; the lists hold no other index,
\* no index twice and no index in common.
C10_Partition ==
    Classified =>
        LET U == issues.unusable_rows
            H == issues.node_header_rows
            P == issues.incomplete_rows
        IN /\ \A r \in 3..LastRow :
                 /\ Cardinality({c \in {"U", "H", "P", "V"} :
                        \/ c = "U" /\ AllEmptyRow(r)
                        \/ c = "H" /\ HeaderRow(r)
                        \/ c = "P" /\ PartialRow(r)
                        \/ c = "V" /\ ValidRow(r)}) = 1
                 /\ r \in Elems(U) <=> AllEmptyRow(r)
                 /\ r \in Elems(H) <=> HeaderRow(r)
                 /\ r \in Elems(P) <=> PartialRow(r)
                 /\ r \notin (Elems(U) \cup Elems(H) \cup Elems(P)) <=> ValidRow(r)
           /\ Elems(U) \cup Elems(H) \cup Elems(P) \subseteq 3..LastRow
           /\ NoDuplicates(U) /\ NoDuplicates(H) /\ NoDuplicates(P)
           /\ Elems(U) \cap Elems(H) = {}
           /\ Elems(U) \cap Elems(P) = {}
           /\ Elems(H) \cap Elems(P) = {}

\* The pass has run on a sheet with an all-empty row, a row with a missing key
\* and a row of three equal keys.
C10_Witness ==
    /\ Classified
    /\ issues.unusable_rows # <<>>
    /\ issues.node_header_rows # <<>>
    /\ issues.incomplete_rows # <<>>
    /\ \E r \in 3..LastRow : PartialRow(r) /\ Value(ws, r, 1) = None

\* The merge resolver has returned from its first call.
Unmerged == pc = "unmerged"
\* The merged ranges the call was given, and what their anchors held.
RangesBefore == {before.merged[i] : i \in DOMAIN before.merged}
AnchorBefore(m) == before.ws[Anchor(m)]
Flagged(m) == \A p \in RangeCells(m) : fill[p] = "red_fill"
Untouched(m) == \A p \in RangeCells(m) : ws[p] = before.ws[p]
Occurrences(s, x) == Cardinality({i \in DOMAIN s : s[i] = x})

\* C11: after resolve_merges every cell of a range whose anchor value V was
\* non-empty holds V, and every cell of a range whose anchor was empty (None or
\* the empty string) carries the empty-merge highlight and has been assigned
\* no value.
C11_MergeValues ==
    Unmerged =>
        \A m \in RangesBefore :
            IF AnchorBefore(m) \in {None, EmptyStr}
            THEN Flagged(m) /\ Untouched(m)
            ELSE \A p \in RangeCells(m) : ws[p] = AnchorBefore(m)

\* C11 with "empty" read as the code's `is None`.
C11_MergeValuesNone ==
    Unmerged =>
        \A m \in RangesBefore :
            IF AnchorBefore(m) = None
            THEN Flagged(m) /\ Untouched(m)
            ELSE \A p \in RangeCells(m) : ws[p] = AnchorBefore(m)

\* C12: after a successful resolve_merges that started with an empty
\* merged_empty_cells list, no merged range is left, each range whose anchor
\* was None is in merged_empty_cells exactly once and no range whose anchor was
\* non-empty is in it.
C12_MergeLedger ==
    (Unmerged /\ result = "True") =>
        /\ merged = <<>>
        /\ \A m \in RangesBefore :
              /\ AnchorBefore(m) = None =>
                    Occurrences(issues.merged_empty_cells, m) = 1
              /\ ~IsBlank(AnchorBefore(m)) =>
                    Occurrences(issues.merged_empty_cells, m) = 0
        /\ \A i \in DOMAIN issues.merged_empty_cells :
              issues.merged_empty_cells[i] \in RangesBefore

\* Scenario E next to a range with a value: the two-cell range with anchor None
\* and a range with anchor "m" have been resolved.
C12_Witness ==
    /\ Unmerged
    /\ PairRange \in RangesBefore
    /\ AnchorBefore(PairRange) = None
    /\ issues.merged_empty_cells = <<PairRange>>
    /\ \E m \in RangesBefore : AnchorBefore(m) = Str(<<"m">>)

\* C13: a range whose anchor holds the empty string or a whitespace-only string
\* is recorded under merged_empty_cells, its cells carry the empty-merge
\* highlight, and the anchor's value is not copied to its other cells.
C13_BlankAnchor ==
    Unmerged =>
        \A m \in RangesBefore :
            (AnchorBefore(m) # None /\ IsBlank(AnchorBefore(m))) =>
                /\ Occurrences(issues.merged_empty_cells, m) = 1
                /\ Flagged(m)
                /\ Untouched(m)

\* The second call has returned.
UnmergedTwice == pc = "unmerged_twice"

\* C14: a second resolve_merges right after a first successful one appends no
\* ledger entry, changes no cell value and no cell style, and succeeds.
C14_MergeIdempotent ==
    UnmergedTwice =>
        /\ result = "True"
        /\ issues = before.issues
        /\ ws = before.ws
        /\ fill = before.fill
        /\ align = before.align
        /\ merged = before.merged

\* The second call has returned on a sheet whose first call recorded a range
\* with anchor None and copied a value into another.
C14_Witness ==
    /\ UnmergedTwice
    /\ Len(issues.merged_empty_cells) = 1
    /\ \E m \in Ranges \ {issues.merged_empty_cells[1]} :
          \A p \in RangeCells(m) : ws[p] = Str(<<"m">>)

\* The bounds of the sheet, stated on its cells.
HasValue(r, c) == Value(ws, r, c) # None /\ Value(ws, r, c) # EmptyStr
ValueRows == {r \in Rows : \E c \in Cols : HasValue(r, c)}
ValueCols == {c \in Cols : \E r \in Rows : HasValue(r, c)}
Greatest(S) == CHOOSE x \in S : \A y \in S : y <= x
BoundRow == IF ValueRows = {} THEN 0 ELSE Greatest(ValueRows)
BoundCol == IF ValueCols = {} THEN 0 ELSE Greatest(ValueCols)
Validated == pc = "validated"
SheetUnchanged ==
    /\ ws = before.ws
    /\ fill = before.fill
    /\ align = before.align
    /\ merged = before.merged

\* C15: last_row_with_value returns 0 when no cell holds a value other than
\* None or the empty string, and otherwise the greatest row with such a cell;
\* last_col_with_value does the same for columns over all rows; the grid is
\* not changed.
C15_Bounds ==
    Validated =>
        /\ last_row = BoundRow
        /\ last_col = BoundCol
        /\ ws = before.ws

\* The bounds have been computed on a sheet with a populated cell and, below
\* and right of the bounds, a cell holding the empty string.
C15_Witness ==
    /\ Validated
    /\ last_row > 0
    /\ \E r \in Rows, c \in Cols :
          r > last_row /\ c > last_col /\ Value(ws, r, c) = EmptyStr

\* C16: validate_shape returns true iff last_col_with_value >= 5 and
\* last_row_with_value >= 3, false otherwise, and modifies no cell value,
\* style, merged range or ledger entry.
C16_ValidateShape ==
    Validated =>
        /\ result = (IF BoundCol >= 5 /\ BoundRow >= 3 THEN "True" ELSE "False")
        /\ SheetUnchanged
        /\ issues = before.issues

\* The validator has accepted a sheet whose bounds are just the required ones.
C16_Witness ==
    /\ Validated
    /\ result = "True"
    /\ BoundCol = 5
    /\ BoundRow = 3

\* The row-2 cells of the version and comment columns that are None or blank.
Checked == pc = "checked"
BlankHeaderCols == {c \in 4..LastCol : IsBlank(Value(ws, 2, c))}
ColOf(coord) == CHOOSE c \in Cols : coordinate(2, c) = coord
Row2Ledger == issues.empty_cell_in_enm_version_row2

Removed == pc = "removed"
\* The removal predicate on row r of sheet g.
Matches(g, r) ==
    \/ g[<<r, 1>>] = g[<<r, 2>>] /\ g[<<r, 2>>] = g[<<r, 3>>]
    \/ (g[<<r, 2>>] \in {None, EmptyStr} /\ g[<<r, 3>>] \in {None, EmptyStr})
RowAt(g, r) == [c \in Cols |-> g[<<r, c>>]]
EmptyRow == [c \in Cols |-> None]
\* Rows 3..lr of sheet g, top to bottom, without the rows whose index is in S.
RowsWithout(g, lr, S) ==
    LET kept == SelectSeq([i \in 1..(IF lr >= 3 THEN lr - 2 ELSE 0) |-> i + 2],
                          LAMBDA r : r \notin S)
    IN [k \in DOMAIN kept |-> RowAt(g, kept[k])]
LastRowBefore == get_last_row_with_value(before.ws)
RECURSIVE IsSubseq(_, _)
IsSubseq(a, b) ==
    IF a = <<>> THEN TRUE
    ELSE IF b = <<>> THEN FALSE
    ELSE IF Head(a) = Head(b) THEN IsSubseq(Tail(a), Tail(b))
    ELSE IsSubseq(a, Tail(b))

\* C18: after remove_duplicate_header_rows no row 3..last_row of the resulting
\* grid has columns 1-3 all equal or columns 2 and 3 both empty, and the rows
\* of the initial grid that did not match are all still there, in their order
\* and with their values.
C18_NoHeaderRowLeft ==
    Removed =>
        /\ \A r \in 3..LastRow : ~Matches(ws, r)
        /\ IsSubseq(RowsWithout(before.ws, LastRowBefore,
                                {r \in 3..LastRowBefore : Matches(before.ws, r)}),
                    RowsWithout(ws, LastRow, {}))

\* The second half of C18 alone: no row that did not match is lost or changed.
C18_KeptRows ==
    Removed =>
        IsSubseq(RowsWithout(before.ws, LastRowBefore,
                             {r \in 3..LastRowBefore : Matches(before.ws, r)}),
                 RowsWithout(ws, LastRow, {}))

RemovedLedger == issues.removed_header_rows

\* C19: after remove_duplicate_header_rows started with an empty list,
\* removed_header_rows lists the indices, as numbered before the call, of
\* exactly the rows deleted: each index once, each of a matching data row of
\* the original grid, and the original rows without them are the rows left.
C19_RemovedIndices ==
    Removed =>
        /\ NoDuplicates(RemovedLedger)
        /\ \A i \in DOMAIN RemovedLedger :
              /\ RemovedLedger[i] \in 3..LastRowBefore
              /\ Matches(before.ws, RemovedLedger[i])
        /\ RowsWithout(ws, LastRowBefore - Len(RemovedLedger), {})
              = RowsWithout(before.ws, LastRowBefore, Elems(RemovedLedger))
        /\ \A r \in (LastRowBefore - Len(RemovedLedger) + 1)..MaxRow :
              RowAt(ws, r) = EmptyRow

\* The run has been rejected by the shape validation.
Rejected == pc = "failed"
\* Sheet g with the anchor value of every merged range of ms in all its cells.
Broadcast(g, ms) ==
    [p \in DOMAIN g |->
        IF \E i \in DOMAIN ms : p \in RangeCells(ms[i])
        THEN g[Anchor(ms[CHOOSE i \in DOMAIN ms : p \in RangeCells(ms[i])])]
        ELSE g[p]]
\* last_col >= 5 and last_row >= 3 on sheet g.
MeetsShape(g) ==
    /\ \E r \in Rows, c \in Cols : c >= 5 /\ g[<<r, c>>] \notin {None, EmptyStr}
    /\ \E r \in Rows, c \in Cols : r >= 3 /\ g[<<r, c>>] \notin {None, EmptyStr}

\* C20 as claimed: the merge resolver runs before the shape validation, which
\* is evaluated on the grid with its merged values broadcast: a run is rejected
\* only if that grid fails the shape, and a run that passed the validation has
\* no merged range left.
C20_MergeBeforeValidation ==
    /\ Rejected => ~MeetsShape(Broadcast(before.ws, before.merged))
    /\ pc = "step1" => merged = <<>>

\* C20 as amended: the shape validation is the first stage and is evaluated on
\* the grid as loaded; the merge resolver runs only after it has passed; a run
\* on a grid that fails the shape as loaded is rejected with no range dissolved
\* and nothing saved, also when the grid would meet the shape with its merged
\* values broadcast.
C20_ValidationBeforeMerge ==
    /\ [][pc = "step0" =>
            /\ merged' = merged
            /\ ws' = ws
            /\ pc' = (IF MeetsShape(ws) THEN "step1" ELSE "failed")]_vars
    /\ [][merged' # merged => pc = "step1"]_vars
    /\ [](Rejected =>
            /\ result = "False"
            /\ ~MeetsShape(ws)
            /\ ws = before.ws
            /\ merged = before.merged
            /\ fill = before.fill
            /\ issues = before.issues
            /\ saved = <<>>)

\* A run has been rejected on a sheet that would meet the shape with the
\* values of its merged ranges broadcast.
C20_Witness ==
    /\ Rejected
    /\ merged # <<>>
    /\ ~MeetsShape(ws)
    /\ MeetsShape(Broadcast(ws, merged))


\* The run has ended in a failed stage: the shape validation or the save.
Failed == pc \in {"failed", "save_failed"}

\* C21: a stage that signals failure ends the run: a sheet that fails the shape
\* is rejected by the first stage with no range dissolved, no highlight and no
\* ledger entry; after a failed stage no step of any stage or of the
\* extraction is taken, nothing has been saved or extracted and the run
\* reports failure; a failed save leaves the grid, the highlights and the
\* ledger as the completed stages made them.
C21_FailureStops ==
    /\ [][(pc = "step0" /\ ~MeetsShape(ws)) =>
            /\ pc' = "failed"
            /\ merged' = merged
            /\ ws' = ws
            /\ fill' = fill
            /\ issues' = issues]_vars
    /\ [][~Failed]_vars
    /\ [][pc' = "save_failed" =>
            /\ pc = "step5"
            /\ <<ws, fill, align, merged, issues>>' = <<ws, fill, align, merged, issues>>]_vars
    /\ [](Failed => result = "False" /\ saved = <<>> /\ json_file = <<>>)
    /\ [](pc = "save_failed" =>
            /\ merged = <<>>
            /\ \A p \in DOMAIN ws : ws[p] # None => align[p] = "center"
            /\ issues.unusable_rows =
                  RowList(AllEmptyRow))
    /\ [][(pc' = "start" /\ pc # "start") => (pc = "saved" /\ saved # <<>>)]_vars

\* A run failed at the save after an empty merged range was flagged and an
\* empty row recorded.
C21_Witness ==
    /\ pc = "save_failed"
    /\ result = "False"
    /\ issues.merged_empty_cells # <<>>
    /\ issues.unusable_rows # <<>>


\* List a is a prefix of list b.
IsPrefix(a, b) == Len(a) <= Len(b) /\ \A i \in DOMAIN a : b[i] = a[i]
\* A ledger-writing component has returned.
Returned == pc \in {"unmerged", "checked", "classified"}
ClassifierLists == {"unusable_rows", "incomplete_rows", "node_header_rows"}

\* C22: after resolve_merges, check_version_header or classify_and_highlight,
\* every list of the ledger has the list the call was given as a prefix, the
\* classifier's three lists included when they held entries at the call.
C22_AppendOnly ==
    Returned => \A k \in DOMAIN issues : IsPrefix(before.issues[k], issues[k])

\* C22 apart from the classifier's own lists: every list is extended by the
\* merge resolver and the header check, and the classifier leaves the lists of
\* the other components as they were.
C22_AppendOnlyOthers ==
    Returned =>
        \A k \in DOMAIN issues :
            (pc # "classified" \/ k \notin ClassifierLists)
                => IsPrefix(before.issues[k], issues[k])


\* The fill of cell (r, c).
Style(r, c) == fill[<<r, c>>]

\* C23: after the classification pass, in every incomplete row the key cells
\* whose trimmed value is empty carry the missing-field fill and the other
\* cells of columns 1..last_col the row-level fill; in every unusable or
\* node-header row every cell of columns 1..last_col carries the row-level
\* fill; no fill of a valid row and no cell value of any row has changed.
C23_RowStyles ==
    Classified =>
        /\ ws = before.ws
        /\ \A r \in 3..LastRow :
              /\ PartialRow(r) =>
                    \A c \in 1..LastCol :
                        Style(r, c) = IF c \in EmptyKeys(r) THEN "red_fill"
                                      ELSE "light_red_fill"
              /\ (AllEmptyRow(r) \/ HeaderRow(r)) =>
                    \A c \in 1..LastCol : Style(r, c) = "light_red_fill"
              /\ ValidRow(r) =>
                    \A c \in Cols : Style(r, c) = before.fill[<<r, c>>]

\* The pass has run on a sheet with a valid row, an all-empty row and a row
\* whose whitespace-only key carries the missing-field fill next to a key
\* with the row-level fill.
C23_Witness ==
    /\ Classified
    /\ \E r \in 3..LastRow : ValidRow(r)
    /\ \E r \in 3..LastRow : AllEmptyRow(r) /\ Style(r, LastCol) = "light_red_fill"
    /\ \E r \in 3..LastRow :
          /\ PartialRow(r)
          /\ Value(ws, r, 2) = sBlank
          /\ Style(r, 2) = "red_fill"
          /\ Style(r, 1) = "light_red_fill"


\* The cells of row r, of column c, are all None or blank after trimming.
BlankRow(r) == \A c \in Cols : IsBlank(Value(ws, r, c))
BlankCol(c) == \A r \in Rows : IsBlank(Value(ws, r, c))

\* C24: the bounds finders count a whitespace-only cell as empty: a sheet
\* whose cells are all None or blank has bounds 0 and 0, and a row or column
\* of blank cells is never the reported last row or column.
C24_BlankBounds ==
    Validated =>
        /\ (\A r \in Rows : BlankRow(r)) => (last_row = 0 /\ last_col = 0)
        /\ last_row # 0 => ~BlankRow(last_row)
        /\ last_col # 0 => ~BlankCol(last_col)


\* Every window cell of row r is None or blank after trimming.
WindowBlank(r) == \A c \in WindowCols : IsBlank(Value(ws, r, c))

\* C25: a whitespace-only window cell is treated as empty: the mapping of a
\* non-skipped row has no entry for it, and a non-skipped row whose window
\* cells are all None, empty or whitespace-only leaves the output as it was.
C25_BlankWindowCell ==
    /\ []((RowDone /\ ~Skipped(row)) =>
            \A i \in DOMAIN supported_nodes : ~IsBlank(supported_nodes[i].v))
    /\ [][(pc = "rows" /\ row' = row + 1 /\ ~Skipped(row') /\ WindowBlank(row'))
              => data' = data]_vars


\* The call was made with empty start_version and end_version.
NoFilters == start_version = <<>> /\ end_version = <<>>

\* C26: on a sheet that passes the shape validation with last_col = 5 and a
\* non-empty label in column 4, a call with empty filters resolves start_col
\* and end_col to 4 and fails with InvalidRange; with empty filters and a
\* complete header a call succeeds only when last_col >= 6.
C26_MinimumWidth ==
    (Done /\ NoFilters) =>
        /\ (MeetsShape(ws) /\ LastCol = 5 /\ ~IsBlank(Value(ws, VersionRowIdx, 4))) =>
              /\ start_col = 4
              /\ end_col = 4
              /\ result = "False"
              /\ err = "InvalidRange"
              /\ json_file = <<>>
        /\ (HeaderComplete /\ result = "True") => LastCol >= 6

\* A call with empty filters has failed on a sheet of five columns with a
\* valid data row.
C26_Witness ==
    /\ Done
    /\ NoFilters
    /\ LastCol = 5
    /\ \E r \in 3..LastRow : ~Skipped(r) /\ Populated(r, 4)
    /\ err = "InvalidRange"


\* The rows the classification pass of the run has flagged.
FlaggedRows ==
    Elems(issues.unusable_rows) \cup Elems(issues.node_header_rows)
        \cup Elems(issues.incomplete_rows)

\* C27: when the extraction that follows a processing run succeeds, the rows
\* it has skipped are the rows the classification pass has recorded as
\* unusable, node-header or incomplete.
C27_SkippedAreFlagged ==
    (Succeeded /\ saved # <<>>) => Elems(skipped_rows_for_json) = FlaggedRows


\* A key of the output: a non-empty string with no surrounding whitespace.
TrimmedKey(k) == k # <<>> /\ strip(k) = k
\* The row-2 labels of the window's columns, as the strings they are written as.
WindowLabels == {str(Value(ws, VersionRowIdx, c)) : c \in WindowCols}

\* C28: in the output of a successful extraction every path tech ->
\* node_type -> node_version has three non-empty trimmed keys that are not
\* all the same, its leaf mapping is non-empty and has an entry keyed by the
\* row-2 label of a window column, and no tech or node_type key maps to an
\* empty mapping.
C28_KeyTripleInvariant ==
    Succeeded =>
        LET d == json_file[1]
        IN \A i \in DOMAIN d :
              /\ d[i].v # EmptyDict
              /\ \A j \in DOMAIN d[i].v :
                    /\ d[i].v[j].v # EmptyDict
                    /\ \A n \in DOMAIN d[i].v[j].v :
                          LET tech == d[i].k
                              node_type == d[i].v[j].k
                              node_version == d[i].v[j].v[n].k
                              leaf == d[i].v[j].v[n].v
                          IN /\ TrimmedKey(tech)
                             /\ TrimmedKey(node_type)
                             /\ TrimmedKey(node_version)
                             /\ ~(tech = node_type /\ node_type = node_version)
                             /\ leaf # EmptyDict
                             /\ \E e \in DOMAIN leaf : leaf[e].k \in WindowLabels

\* A non-empty document has been written for a sheet with a row of padded
\* keys, a row of three equal keys and a row with no populated window cell.
C28_Witness ==
    /\ Succeeded
    /\ json_file[1] # EmptyDict
    /\ \E r \in 3..LastRow : Value(ws, r, 1) # Str(KeyText(r, 1)) /\ ~Skipped(r)
    /\ \E r \in 3..LastRow : ~SomeKeyEmpty(r) /\ KeysTextEqual(r)
    /\ \E r \in 3..LastRow : ~Skipped(r) /\ WindowEmpty(r)


\* The per-row mapping of row r: its window entries and, when due, its comment.
PerRow(r) == WithComment(ws, WindowEntries(r), CommentText(r), LastCol)
SameTriple(r, q) == \A i \in 1..3 : KeyText(r, i) = KeyText(q, i)
\* Row r is not skipped and has a non-empty per-row mapping.
Contributes(r) == ~Skipped(r) /\ PerRow(r) # EmptyDict
\* The output's mapping at the key triple of row r.
OutputAt(r) ==
    DictGet(DictGet(DictGet(json_file[1], KeyText(r, 1)), KeyText(r, 2)), KeyText(r, 3))

\* C29: among the non-skipped rows that share a trimmed key triple and have a
\* non-empty per-row mapping, the output's entry at that triple is exactly
\* the per-row mapping of the last one, with nothing of the earlier rows
\* merged in; later rows of the triple whose mapping is empty do not remove it.
C29_LastRowWins ==
    Succeeded =>
        \A r \in 3..LastRow :
            (/\ Contributes(r)
             /\ \A q \in (r + 1)..LastRow : SameTriple(r, q) => ~Contributes(q))
            => /\ HasPath(json_file[1], KeyText(r, 1), KeyText(r, 2), KeyText(r, 3))
               /\ OutputAt(r) = PerRow(r)

\* A document has been written for a sheet where two rows with different
\* non-empty mappings share a trimmed key triple, the later one lacking a key
\* of the earlier, and a still later row of the triple has an empty mapping.
C29_Witness ==
    /\ Succeeded
    /\ \E r, q, e \in 3..LastRow :
          /\ r < q /\ q < e
          /\ SameTriple(r, q) /\ SameTriple(q, e)
          /\ Contributes(r) /\ Contributes(q)
          /\ ~Skipped(e) /\ PerRow(e) = EmptyDict
          /\ \E i \in DOMAIN PerRow(r) : ~DictHas(PerRow(q), PerRow(r)[i].k)
          /\ OutputAt(q) = PerRow(q)


\* Both variants have returned; Legacy is what the legacy variant returned.
BothDone == Done /\ first # <<>>
Legacy == first[1]
\* The window of the legacy variant, its end_col being exclusive.
LegacyWindow == Legacy.start_col..(Legacy.end_col - 1)
LegacyAt(r) ==
    DictGet(DictGet(DictGet(Legacy.json_file[1], KeyText(r, 1)), KeyText(r, 2)),
            KeyText(r, 3))

====
